---- MODULE Spec2Model ----
(***************************************************************************)
(* Verification model of the botpress dialog core.                         *)
(*                                                                         *)
(*  - InstructionFactory (createOnEnter / createOnReceive /                *)
(*    createTransition / createWait) is translated from its source.        *)
(*  - Botpress.initialize and the before- and after-incoming-middleware   *)
(*    callbacks registered by Botpress.initializeServices are translated   *)
(*    from their source.                                                   *)
(*  - DecisionEngine.processEvent, the DialogEngine interpreter, the       *)
(*    DialogJanitor and SessionIdFactory are imported by botpress.ts but   *)
(*    their sources are not part of the tree; they are modelled from the   *)
(*    written specification (sections 4.2 - 4.5, 5 and 7).                 *)
(***************************************************************************)
EXTENDS Integers, Sequences, FiniteSets, TLC

VARIABLES
    cnode,      \* InstructionFactory input: the node document being compiled
    cflow,      \* InstructionFactory input: the owning flow document
    cres,       \* InstructionFactory output of the last compilation
    flow,       \* the flow document the runtime executes (read-only)
    store,      \* session persistence: session id -> persisted context
    lock,       \* per-session exclusive processing right: holder or NoProc
    pc,         \* position of every event callback / janitor turn
    ev,         \* the event every process is handling
    sid,        \* the session id derived for the event
    work,       \* the in-flight (uncommitted) context of every turn
    snap,       \* the pre-turn snapshot of every turn
    err,        \* the ProcessingError raised by the turn, if any
    taken,      \* last transition taken by the turn (source node, destination)
    reported,   \* the ProcessingError every turn handed to dialogEngine.onProcessingError
    emitted,    \* number of done.<target> events emitted per event
    now,        \* the clock, as of its last reading
    sweep,      \* the dialog janitor's sweep, with what it did to each session
    boot,       \* Botpress.initialize: the step reached and what it has set up
    hook        \* per event: this.api as each hook received it, the hook's outcome

cvars == <<cnode, cflow, cres>>
rvars == <<flow, store, lock, pc, ev, sid, work, snap, err, taken, reported,
           emitted, now, sweep, boot, hook>>
vars == <<cnode, cflow, cres, flow, store, lock, pc, ev, sid, work, snap, err,
          taken, reported, emitted, now, sweep, boot, hook>>

(***************************************************************************)
(* Bounds of the model.                                                    *)
(***************************************************************************)
MaxList == 2
MaxEvents == 2
MaxTime == 1
MaxVar == 2

(***************************************************************************)
(* JavaScript values of the optional document fields: a field is           *)
(* undefined (absent), null, or an array.                                  *)
(***************************************************************************)
Undef == [tag |-> "undefined", val |-> <<>>]
Null == [tag |-> "null", val |-> <<>>]
List(l) == [tag |-> "list", val |-> l]
EmptyList == List(<<>>)

NoNode == ""
NoFn == ""

\* _.get(object, path, defaultValue): the default replaces an undefined
\* resolved value only (null is returned as it is).
Get(field, default) == IF field.tag = "undefined" THEN default ELSE field

\* _.get(flow, 'catchAll.<key>', defaultValue): an undefined or null catchAll
\* resolves to undefined, hence to the default.
GetCatchAll(f, key, default) ==
    IF f.catchAll.tag # "object" THEN default
    ELSE IF key = "onReceive" THEN Get(f.catchAll.onReceive, default)
    ELSE Get(f.catchAll.next, default)

\* JavaScript truthiness of a field value: undefined and null are falsy,
\* every array (the empty one included) is truthy.
Truthy(v) == v.tag = "list"

\* value || []
OrEmpty(v) == IF Truthy(v) THEN v ELSE EmptyList

\* Array.prototype.map
Map(Op(_), s) == [i \in 1..Len(s) |-> Op(s[i])]

\* _.isEmpty on an array
IsEmpty(v) == Len(v.val) = 0

(***************************************************************************)
(* InstructionFactory                                                      *)
(***************************************************************************)
OnEnterInstruction(x) == [type |-> "on-enter", fn |-> x, node |-> NoNode]
OnReceiveInstruction(x) == [type |-> "on-receive", fn |-> x, node |-> NoNode]
TransitionInstruction(x) == [type |-> "transition", fn |-> x.condition, node |-> x.node]

\* A variant of createOnEnter with a copy-and-paste slip: the instructions
\* carry the type of the on-receive ones.
createOnEnterAsOnReceive(node) ==
    LET onEnter == OrEmpty(Get(node.onEnter, EmptyList))
    IN  Map(OnReceiveInstruction, onEnter.val)

createOnEnter(node) ==
    LET onEnter == OrEmpty(Get(node.onEnter, EmptyList))
    IN  Map(OnEnterInstruction, onEnter.val)

\* Variants of createOnReceive with a plausible slip each: the catch-all
\* actions returned for a node that does not listen; the node-local actions
\* placed before the catch-all ones; an empty result reported as undefined.
createOnReceiveCatchAllOnly(node, f) ==
    LET flowReceive == OrEmpty(GetCatchAll(f, "onReceive", EmptyList))
    IN  IF ~Truthy(node.onReceive)
        THEN List(Map(OnReceiveInstruction, flowReceive.val))
        ELSE List(Map(OnReceiveInstruction, flowReceive.val \o node.onReceive.val))

createOnReceiveNodeFirst(node, f) ==
    LET flowReceive == OrEmpty(GetCatchAll(f, "onReceive", EmptyList))
    IN  IF ~Truthy(node.onReceive)
        THEN Undef
        ELSE List(Map(OnReceiveInstruction, node.onReceive.val \o flowReceive.val))

createOnReceiveEmptyIsUndefined(node, f) ==
    LET flowReceive == OrEmpty(GetCatchAll(f, "onReceive", EmptyList))
    IN  IF ~Truthy(node.onReceive) \/ Len(flowReceive.val \o node.onReceive.val) = 0
        THEN Undef
        ELSE List(Map(OnReceiveInstruction, flowReceive.val \o node.onReceive.val))

\* The result is Undef (the function returns undefined) or List(instructions).
createOnReceive(node, f) ==
    LET flowReceive == OrEmpty(GetCatchAll(f, "onReceive", EmptyList))
    IN  IF ~Truthy(node.onReceive)
        THEN Undef
        ELSE List(Map(OnReceiveInstruction, flowReceive.val \o node.onReceive.val))

\* Variants of createTransition with a plausible slip each: the node-local
\* entries placed first; the early return for an empty next left out; the
\* compiled list reversed.
createTransitionNodeFirst(node, f) ==
    LET nodeNext == OrEmpty(Get(node.next, EmptyList))
    IN  IF IsEmpty(nodeNext)
        THEN <<>>
        ELSE LET flowNext == OrEmpty(GetCatchAll(f, "next", EmptyList))
             IN  Map(TransitionInstruction, nodeNext.val \o flowNext.val)

createTransitionNoEarlyReturn(node, f) ==
    LET nodeNext == OrEmpty(Get(node.next, EmptyList))
        flowNext == OrEmpty(GetCatchAll(f, "next", EmptyList))
    IN  Map(TransitionInstruction, flowNext.val \o nodeNext.val)

createTransitionReversed(node, f) ==
    LET nodeNext == OrEmpty(Get(node.next, EmptyList))
    IN  IF IsEmpty(nodeNext)
        THEN <<>>
        ELSE LET flowNext == OrEmpty(GetCatchAll(f, "next", EmptyList))
                 all == flowNext.val \o nodeNext.val
             IN  [i \in 1..Len(all) |-> TransitionInstruction(all[Len(all) + 1 - i])]

createTransition(node, f) ==
    LET nodeNext == OrEmpty(Get(node.next, EmptyList))
    IN  IF IsEmpty(nodeNext)
        THEN <<>>
        ELSE LET flowNext == OrEmpty(GetCatchAll(f, "next", EmptyList))
             IN  Map(TransitionInstruction, flowNext.val \o nodeNext.val)

createWait == [type |-> "wait", fn |-> NoFn, node |-> NoNode]

(***************************************************************************)
(* Documents.  Action and condition payloads are opaque to the core; the   *)
(* evaluator below gives the payloads used here their meaning.             *)
(***************************************************************************)
Actions == {"inc", "badNo"}
Conditions == {"true", "yes"}
NodeNames == {"A", "B"}

Node(e, r, n) == [onEnter |-> e, onReceive |-> r, next |-> n]
Tr(c, n) == [condition |-> c, node |-> n]
NoCatchAll == [tag |-> "undefined", onReceive |-> Undef, next |-> Undef]
NullCatchAll == [tag |-> "null", onReceive |-> Undef, next |-> Undef]
CatchAll(r, n) == [tag |-> "object", onReceive |-> r, next |-> n]

SeqsUpTo(S, n) == UNION {[1..k -> S] : k \in 0..n}
FieldValues(S) == {Undef, Null} \cup {List(l) : l \in SeqsUpTo(S, MaxList)}
Entries == {Tr(c, n) : c \in Conditions, n \in NodeNames}

\* The (node, flow) pairs handed to InstructionFactory.  Each function reads
\* one field of the node and one of the catch-all, so the other fields stay
\* undefined while one pair of fields ranges over all its values.
CatchAllValues(r, n) ==
    {NoCatchAll, NullCatchAll} \cup {CatchAll(x, y) : x \in r, y \in n}
CompileInputs ==
    {<<Node(e, Undef, Undef), [catchAll |-> c]>> :
        e \in FieldValues(Actions),
        c \in {NoCatchAll, CatchAll(List(<<"inc">>), List(<<Tr("true", "A")>>))}}
    \cup
    {<<Node(Undef, r, Undef), [catchAll |-> c]>> :
        r \in FieldValues(Actions),
        c \in CatchAllValues(FieldValues(Actions), {Undef})}
    \cup
    {<<Node(Undef, Undef, n), [catchAll |-> c]>> :
        n \in FieldValues(Entries),
        c \in CatchAllValues({Undef}, FieldValues(Entries))}

NoRes == [fn |-> "none", out |-> <<>>]

(***************************************************************************)
(* The flows the runtime executes.                                         *)
(***************************************************************************)
Terminal == Node(Undef, Undef, Undef)

\* First truthy transition wins; an empty-but-present onReceive still waits.
FlowFirst ==
    [name |-> "first", start |-> "start", catchAll |-> NoCatchAll,
     nodes |-> [n \in {"start", "A", "B", "C", "D"} |->
        CASE n = "start" -> Node(List(<<"inc">>), EmptyList,
                                 List(<<Tr("false", "A"), Tr("false", "B"),
                                        Tr("true", "C"), Tr("true", "D")>>))
          [] n = "B" -> Node(Null, Null, Null)
          [] n = "C" -> Node(List(<<"inc">>), Undef, EmptyList)
          [] OTHER -> Terminal]]

\* Catch-all handlers that precede the node-local ones, a catch-all timeout
\* transition, a no-match, and a listening node without transitions.
FlowCatch ==
    [name |-> "catch", start |-> "start",
     catchAll |-> CatchAll(List(<<"inc">>),
                           List(<<Tr("timeout", "E"), Tr("yes", "E")>>)),
     nodes |-> [n \in {"start", "A", "W", "E"} |->
        CASE n = "start" -> Node(Undef, Undef,
                                 List(<<Tr("yes", "A"), Tr("true", "W")>>))
          [] n = "W" -> Node(Undef, List(<<"inc">>), List(<<Tr("false", "A")>>))
          [] n = "E" -> Node(List(<<"inc">>), List(<<"badNo">>), Null)
          [] OTHER -> Terminal]]

\* Failing condition, failing action and a self-transition that never waits.
FlowErr ==
    [name |-> "err", start |-> "start", catchAll |-> NullCatchAll,
     nodes |-> [n \in {"start", "wait", "loop", "X"} |->
        CASE n = "start" -> Node(List(<<"inc">>), Undef,
                                 List(<<Tr("yes", "wait"), Tr("bad", "X")>>))
          [] n = "wait" -> Node(Undef, List(<<"inc", "badNo">>),
                                List(<<Tr("true", "loop")>>))
          [] n = "loop" -> Node(List(<<"inc">>), Undef, List(<<Tr("true", "loop")>>))
          [] OTHER -> Terminal]]

\* A start node that does not listen, a node-local timeout transition with a
\* null destination, and a listening node without transitions.
FlowYes ==
    [name |-> "yes", start |-> "start", catchAll |-> CatchAll(Null, EmptyList),
     nodes |-> [n \in {"start", "A", "B"} |->
        CASE n = "start" -> Node(Undef, Undef,
                                 List(<<Tr("yes", "A"), Tr("true", "B")>>))
          [] n = "A" -> Node(List(<<"inc">>), List(<<"inc">>),
                             List(<<Tr("timeout", NoNode), Tr("yes", "B")>>))
          [] OTHER -> Node(Null, EmptyList, Null)]]

Flows == {FlowFirst, FlowCatch, FlowErr, FlowYes}

(***************************************************************************)
(* Events, sessions, processes.                                            *)
(***************************************************************************)
Users == {"u1", "u2"}
Inputs == {"yes", "no"}
Channel == "web"
\* Users are interchangeable: the first event is taken to come from FirstUser.
FirstUser == "u1"

MessageEvent(u, i) == [type |-> "message", channel |-> Channel, target |-> u, input |-> i]
TimeoutEvent(u) == [type |-> "timeout", channel |-> Channel, target |-> u, input |-> "none"]
NoEvent == [type |-> "none", channel |-> "", target |-> "", input |-> "none"]

\* SessionIdFactory.createIdFromEvent: a deterministic key of the conversation.
createIdFromEvent(event) == event.channel \o "::" \o event.target

Sessions == {createIdFromEvent(MessageEvent(u, "yes")) : u \in Users}
NoSession == ""
UserOf(s) == CHOOSE u \in Users : createIdFromEvent(MessageEvent(u, "yes")) = s

EventProcs == 1..MaxEvents
JanitorProc == MaxEvents + 1
Procs == EventProcs \cup {JanitorProc}
NoProc == MaxEvents + 2

\* Configuration of the runtime.
MaxHops == 2
TimeoutT == 0

(***************************************************************************)
(* The evaluator: evaluate(payload, context) of section 9.                 *)
(***************************************************************************)
\* "true" / "false" / "throw"
EvalCondition(c, event) ==
    CASE c = "true" -> "true"
      [] c = "false" -> "false"
      [] c = "yes" -> IF event.input = "yes" THEN "true" ELSE "false"
      [] c = "timeout" -> IF event.type = "timeout" THEN "true" ELSE "false"
      [] OTHER -> "throw"

\* Does the action fail on this event?
ActionThrows(a, event) ==
    CASE a = "inc" -> FALSE
      [] a = "badNo" -> event.input = "no"
      [] OTHER -> TRUE

\* The variables after an action that did not fail.
ActionEffect(a, v) == IF v < MaxVar THEN v + 1 ELSE v

(***************************************************************************)
(* Contexts.                                                               *)
(***************************************************************************)
NoCtx == [state |-> "none", node |-> NoNode, queue |-> <<>>, vars |-> 0, last |-> 0]
TerminatedCtx ==
    [state |-> "terminated", node |-> NoNode, queue |-> <<>>, vars |-> 0, last |-> 0]
IdleWork == [state |-> "idle", node |-> NoNode, queue |-> <<>>, vars |-> 0, hops |-> 0]
NoInstruction == [type |-> "none", fn |-> NoFn, node |-> NoNode]
NoFlow == ""
NoErr == [reason |-> "none", instruction |-> NoInstruction, flowName |-> NoFlow,
          node |-> NoNode]
NoTaken == [from |-> NoNode, to |-> NoNode, any |-> FALSE]
IdleSweep == [active |-> FALSE, todo |-> {}, initial |-> {},
              lastAt |-> [s \in Sessions |-> 0],
              handled |-> [s \in Sessions |-> "none"]]

Live(ctx) == ctx.state = "awaiting-input"

(***************************************************************************)
(* DialogEngine: the instruction interpreter (section 4.2).                *)
(***************************************************************************)
\* What follows an exhausted list: after the on-enter list either the wait
\* (the node listens) or the transitions; after the on-receive list the
\* transitions; an empty compiled transition list terminates.
Settle(w) ==
    LET node == flow.nodes[w.node]
        onReceive == createOnReceive(node, flow)
        a == IF w.queue # <<>> THEN w
             ELSE IF w.state = "entering"
             THEN IF onReceive.tag = "undefined"
                  THEN [w EXCEPT !.state = "transitioning",
                                 !.queue = createTransition(node, flow)]
                  ELSE [w EXCEPT !.state = "awaiting-input",
                                 !.queue = <<createWait>>]
             ELSE IF w.state = "receiving"
             THEN [w EXCEPT !.state = "transitioning",
                            !.queue = createTransition(node, flow)]
             ELSE w
    IN  IF a.state = "transitioning" /\ a.queue = <<>>
        THEN [a EXCEPT !.state = "terminated"]
        ELSE a

\* Rule 1/4: enter a node, compiling its on-enter instructions afresh.
EnterNode(n, v, h) ==
    Settle([state |-> "entering", node |-> n,
            queue |-> createOnEnter(flow.nodes[n]), vars |-> v, hops |-> h])

\* Rule 2: a message arrives at a suspended session.
ReceiveAt(ctx) ==
    Settle([state |-> "receiving", node |-> ctx.node,
            queue |-> createOnReceive(flow.nodes[ctx.node], flow).val,
            vars |-> ctx.vars, hops |-> 0])

\* The context a turn starts from: the stored one, or a new one at the
\* flow's start node when the session has none.
Resume(ctx) == IF Live(ctx) THEN ReceiveAt(ctx) ELSE EnterNode(flow.start, 0, 0)

Failure(w, reason, i) ==
    [work |-> w, taken |-> NoTaken,
     err |-> [reason |-> reason, instruction |-> i, flowName |-> flow.name,
              node |-> w.node]]
Progress(w) == [work |-> w, taken |-> NoTaken, err |-> NoErr]

\* A variant of the transition rule without the hop ceiling.
TransitionNoCeiling(w, event) ==
    LET i == Head(w.queue)
        c == EvalCondition(i.fn, event)
    IN  IF c = "throw" THEN Failure(w, "evaluation", i)
        ELSE IF c = "true"
        THEN IF i.node = NoNode
             THEN [work |-> [w EXCEPT !.state = "terminated", !.queue = <<>>],
                   taken |-> [from |-> w.node, to |-> NoNode, any |-> TRUE],
                   err |-> NoErr]
             ELSE [work |-> EnterNode(i.node, w.vars, w.hops + 1),
                   taken |-> [from |-> w.node, to |-> i.node, any |-> TRUE],
                   err |-> NoErr]
        ELSE IF Tail(w.queue) = <<>>
        THEN Failure([w EXCEPT !.state = "terminated"], "no-match", i)
        ELSE Progress([w EXCEPT !.queue = Tail(w.queue)])

\* A variant of the transition rule that waits again at the node, without an
\* error, when no condition of the list is truthy.
TransitionWaitsOnNoMatch(w, event) ==
    LET i == Head(w.queue)
        c == EvalCondition(i.fn, event)
    IN  IF c = "throw" THEN Failure(w, "evaluation", i)
        ELSE IF c = "true"
        THEN IF i.node = NoNode
             THEN [work |-> [w EXCEPT !.state = "terminated", !.queue = <<>>],
                   taken |-> [from |-> w.node, to |-> NoNode, any |-> TRUE],
                   err |-> NoErr]
             ELSE IF w.hops >= MaxHops
             THEN Failure(w, "runaway", i)
             ELSE [work |-> EnterNode(i.node, w.vars, w.hops + 1),
                   taken |-> [from |-> w.node, to |-> i.node, any |-> TRUE],
                   err |-> NoErr]
        ELSE IF Tail(w.queue) = <<>>
        THEN Progress([w EXCEPT !.state = "awaiting-input", !.queue = <<createWait>>])
        ELSE Progress([w EXCEPT !.queue = Tail(w.queue)])

\* Rule 3/4: evaluate the transition instruction at the head of the queue.
Transition(w, event) ==
    LET i == Head(w.queue)
        c == EvalCondition(i.fn, event)
    IN  IF c = "throw" THEN Failure(w, "evaluation", i)
        ELSE IF c = "true"
        THEN IF i.node = NoNode
             THEN [work |-> [w EXCEPT !.state = "terminated", !.queue = <<>>],
                   taken |-> [from |-> w.node, to |-> NoNode, any |-> TRUE],
                   err |-> NoErr]
             ELSE IF w.hops >= MaxHops
             THEN Failure(w, "runaway", i)
             ELSE [work |-> EnterNode(i.node, w.vars, w.hops + 1),
                   taken |-> [from |-> w.node, to |-> i.node, any |-> TRUE],
                   err |-> NoErr]
        ELSE IF Tail(w.queue) = <<>>
        THEN Failure([w EXCEPT !.state = "terminated"], "no-match", i)
        ELSE Progress([w EXCEPT !.queue = Tail(w.queue)])

\* Run an on-enter or on-receive instruction.
RunAction(w, event) ==
    LET i == Head(w.queue)
    IN  IF ActionThrows(i.fn, event)
        THEN Failure(w, "evaluation", i)
        ELSE Progress(Settle([w EXCEPT !.queue = Tail(w.queue),
                                       !.vars = ActionEffect(i.fn, w.vars)]))

\* One instruction of the turn.
Execute(w, event) ==
    IF Head(w.queue).type = "transition"
    THEN Transition(w, event)
    ELSE RunAction(w, event)

Suspended(w) == w.state \in {"awaiting-input", "terminated"}

\* The context the store receives when the turn commits.
Committed(w, t) ==
    IF w.state = "terminated"
    THEN TerminatedCtx
    ELSE [state |-> "awaiting-input", node |-> w.node, queue |-> w.queue,
          vars |-> w.vars, last |-> t]

(***************************************************************************)
(* Botpress.initialize and initializeServices: what the start has set up.  *)
(***************************************************************************)
\* Nothing set up yet: initialize has run up to initializeServices.
Booting ==
    [step |-> "services", callbacks |-> FALSE, onProcessingError |-> FALSE,
     janitor |-> FALSE, server |-> FALSE, bots |-> FALSE, api |-> FALSE]
\* initialize has returned.
Started ==
    [step |-> "started", callbacks |-> TRUE, onProcessingError |-> TRUE,
     janitor |-> TRUE, server |-> TRUE, bots |-> TRUE, api |-> TRUE]

\* this.api as an expression reading it sees it.
ApiSeen == IF boot.api THEN "api" ELSE "undefined"
NoHook == [before |-> "none", after |-> "none", result |-> "none"]

\* A variant in which the callback goes on after a hook that rejected.
OnRejectionContinue(p) == "emit"

\* Where the async callback stands after the promise it awaited rejected: the
\* rejection leaves the callback, none of its later statements runs.
OnRejection(p) == "failed"

(***************************************************************************)
(* InstructionFactory driven on its own: the inputs are drawn in the       *)
(* initial state, every action compiles one of the four results.           *)
(***************************************************************************)
RuntimeIdle ==
    /\ store = [s \in Sessions |-> NoCtx]
    /\ lock = [s \in Sessions |-> NoProc]
    /\ pc = [p \in Procs |-> "idle"]
    /\ ev = [p \in Procs |-> NoEvent]
    /\ sid = [p \in Procs |-> NoSession]
    /\ work = [p \in Procs |-> IdleWork]
    /\ snap = [p \in Procs |-> NoCtx]
    /\ err = [p \in Procs |-> NoErr]
    /\ taken = [p \in Procs |-> NoTaken]
    /\ reported = [p \in Procs |-> NoErr]
    /\ emitted = [p \in EventProcs |-> 0]
    /\ now = 0
    /\ sweep = IdleSweep
    /\ hook = [p \in EventProcs |-> NoHook]

CompileInit ==
    /\ \E in \in CompileInputs : cnode = in[1] /\ cflow = in[2]
    /\ cres = NoRes
    /\ flow = FlowFirst
    /\ boot = Started
    /\ RuntimeIdle

CompileOnEnter ==
    /\ cres' = [fn |-> "createOnEnter", out |-> createOnEnter(cnode)]
    /\ UNCHANGED <<cnode, cflow, rvars>>

CompileOnReceive ==
    /\ cres' = [fn |-> "createOnReceive", out |-> createOnReceive(cnode, cflow)]
    /\ UNCHANGED <<cnode, cflow, rvars>>

CompileTransition ==
    /\ cres' = [fn |-> "createTransition", out |-> createTransition(cnode, cflow)]
    /\ UNCHANGED <<cnode, cflow, rvars>>

CompileWait ==
    /\ cres' = [fn |-> "createWait", out |-> <<createWait>>]
    /\ UNCHANGED <<cnode, cflow, rvars>>

CompileNext == CompileOnEnter \/ CompileOnReceive \/ CompileTransition \/ CompileWait

SpecCompile == CompileInit /\ [][CompileNext]_vars

(***************************************************************************)
(* The runtime.                                                            *)
(***************************************************************************)
Init ==
    /\ cnode = Terminal
    /\ cflow = [catchAll |-> NoCatchAll]
    /\ cres = NoRes
    /\ flow \in Flows
    /\ boot = Started
    /\ RuntimeIdle

\* The processEvent call rejects before it has taken the session (an error
\* that is not a ProcessingError of a turn: those go to the error callback).
ProcessEventRejects(p) ==
    /\ pc[p] = "acquire"
    /\ p \in EventProcs
    /\ pc' = [pc EXCEPT ![p] = OnRejection(p)]
    /\ UNCHANGED <<cvars, boot, hook, flow, store, lock, ev, sid, work, snap, err,
                   taken, reported, emitted, now, sweep>>

\* The event engine may hand events over: the callbacks are registered and
\* the HTTP server listens.
Receiving == boot.callbacks /\ boot.server

\* eventEngine.onBeforeIncomingMiddleware: the hook object is built with
\* this.api as it is when the callback is called.
BeforeIncoming(p) ==
    /\ Receiving
    /\ pc[p] = "idle"
    /\ \A q \in EventProcs : q < p => pc[q] # "idle"
    /\ \E u \in Users, i \in Inputs :
          /\ p = 1 => u = FirstUser
          /\ ev' = [ev EXCEPT ![p] = MessageEvent(u, i)]
    /\ hook' = [hook EXCEPT ![p].before = ApiSeen]
    /\ pc' = [pc EXCEPT ![p] = "middleware"]
    /\ UNCHANGED <<cvars, boot, flow, store, lock, sid, work, snap, err, taken,
                   reported, emitted, now, sweep>>

\* eventEngine.onAfterIncomingMiddleware is called: the hook object is built
\* with this.api as it is now, executeHook is awaited.
AfterIncoming(p) ==
    /\ pc[p] = "middleware"
    /\ hook' = [hook EXCEPT ![p].after = ApiSeen]
    /\ pc' = [pc EXCEPT ![p] = "hook"]
    /\ UNCHANGED <<cvars, boot, flow, store, lock, ev, sid, work, snap, err, taken,
                   reported, emitted, now, sweep>>

\* executeHook(new Hooks.AfterIncomingMiddleware(...)) rejects.
HookRejects(p) ==
    /\ pc[p] = "hook"
    /\ hook' = [hook EXCEPT ![p].result = "rejected"]
    /\ pc' = [pc EXCEPT ![p] = OnRejection(p)]
    /\ UNCHANGED <<cvars, boot, flow, store, lock, ev, sid, work, snap, err, taken,
                   reported, emitted, now, sweep>>

\* In a server that has started, where this.api no longer changes: an
\* incoming event passes the before-incoming callback and the middleware
\* chain and is handed to onAfterIncomingMiddleware.
Arrive(p) ==
    /\ Receiving
    /\ pc[p] = "idle"
    /\ \A q \in EventProcs : q < p => pc[q] # "idle"
    /\ \E u \in Users, i \in Inputs :
          /\ p = 1 => u = FirstUser
          /\ ev' = [ev EXCEPT ![p] = MessageEvent(u, i)]
    /\ hook' = [hook EXCEPT ![p].before = ApiSeen, ![p].after = ApiSeen]
    /\ pc' = [pc EXCEPT ![p] = "hook"]
    /\ UNCHANGED <<cvars, boot, flow, store, lock, sid, work, snap, err, taken,
                   reported, emitted, now, sweep>>

\* await this.hookService.executeHook(new Hooks.AfterIncomingMiddleware(...))
\* resolves; the continuation runs without interruption up to the first await
\* inside processEvent:
\*   const sessionId = SessionIdFactory.createIdFromEvent(event)
\*   await this.decisionEngine.processEvent(sessionId, event)   (the call)
AfterIncomingHook(p) ==
    /\ pc[p] = "hook"
    /\ hook' = [hook EXCEPT ![p].result = "resolved"]
    /\ sid' = [sid EXCEPT ![p] = createIdFromEvent(ev[p])]
    /\ pc' = [pc EXCEPT ![p] = "acquire"]
    /\ UNCHANGED <<cvars, boot, flow, store, lock, ev, work, snap, err, taken, reported,
                   emitted, now, sweep>>

\* The clock is monotonic and is read when a context is saved and when a
\* sweep scans the sessions; any amount of time may pass between two readings.
\* A reading further ahead than the timeout plus one makes stale the sessions
\* that reading makes stale, so the readings stop there.
ClockReadings == {t \in now..MaxTime : t <= now + TimeoutT + 1}

\* A variant without the per-session exclusion.
MayAcquireAlways(p, s) == TRUE

\* A variant under which a running sweep holds every incoming event back.
MayAcquireOutsideSweep(p, s) ==
    lock[s] = NoProc /\ (p = JanitorProc \/ ~sweep.active)

\* May the process start its turn on the session now?
MayAcquire(p, s) == lock[s] = NoProc

\* DecisionEngine.processEvent steps 1-3: take the session's exclusive
\* processing right, resolve or create its context, start the engine.
Acquire(p) ==
    /\ pc[p] = "acquire"
    /\ MayAcquire(p, sid[p])
    /\ LET s == sid[p]
           w == Resume(store[s])
       IN  /\ lock' = [lock EXCEPT ![s] = p]
           /\ snap' = [snap EXCEPT ![p] = store[s]]
           /\ work' = [work EXCEPT ![p] = w]
           /\ pc' = [pc EXCEPT ![p] = IF Suspended(w) THEN "persist" ELSE "run"]
    /\ err' = [err EXCEPT ![p] = NoErr]
    /\ taken' = [taken EXCEPT ![p] = NoTaken]
    /\ UNCHANGED <<cvars, boot, hook, flow, store, ev, sid, reported, emitted, now, sweep>>

\* DialogEngine: one (awaited) instruction of the turn.
Run(p) ==
    /\ pc[p] = "run"
    /\ LET r == Execute(work[p], ev[p])
       IN  /\ work' = [work EXCEPT ![p] = r.work]
           /\ err' = [err EXCEPT ![p] = r.err]
           /\ taken' = [taken EXCEPT ![p] = IF r.taken.any THEN r.taken ELSE @]
           /\ pc' = [pc EXCEPT ![p] =
                        IF r.err # NoErr \/ Suspended(r.work) THEN "persist" ELSE "run"]
    /\ UNCHANGED <<cvars, boot, hook, flow, store, lock, ev, sid, snap, reported, emitted, now,
                   sweep>>

\* A variant that saves what the aborted turn had done so far.
RolledBackPartial(p, s) == Committed(work[p], now)

\* The context in the store after step 4 of a turn that raised an error.
RolledBack(p, s) == snap[p]

\* DecisionEngine.processEvent step 4: persist the context, or roll back.
Persist(p) ==
    /\ pc[p] = "persist"
    /\ LET s == sid[p]
       IN  \/ /\ err[p] = NoErr
              /\ \E t \in ClockReadings :
                    /\ now' = t
                    /\ store' = [store EXCEPT ![s] = Committed(work[p], t)]
              /\ err' = err
           \/ /\ err[p] = NoErr
              /\ store' = [store EXCEPT ![s] = RolledBack(p, s)]
              /\ err' = [err EXCEPT ![p] =
                            [reason |-> "persistence", instruction |-> NoInstruction,
                             flowName |-> flow.name, node |-> work[p].node]]
              /\ now' = now
           \/ /\ err[p] # NoErr
              /\ store' = [store EXCEPT ![s] = RolledBack(p, s)]
              /\ err' = err
              /\ now' = now
    /\ pc' = [pc EXCEPT ![p] = "release"]
    /\ UNCHANGED <<cvars, boot, hook, flow, lock, ev, sid, work, snap, taken, reported, emitted,
                   sweep>>

\* A variant that keeps a failed save from the error callback.
HandedToCallbackUnlessSave(p) ==
    IF err[p].reason = "persistence" THEN NoErr ELSE err[p]

\* What dialogEngine.onProcessingError is called with when the turn ends:
\* the turn's ProcessingError, if it raised one.
HandedToCallback(p) == err[p]

\* DecisionEngine.processEvent step 5: release the session and hand any
\* ProcessingError to dialogEngine.onProcessingError.
Release(p) ==
    /\ pc[p] = "release"
    /\ lock' = [lock EXCEPT ![sid[p]] = NoProc]
    /\ reported' = [reported EXCEPT ![p] = HandedToCallback(p)]
    /\ work' = [work EXCEPT ![p] = IdleWork]
    /\ snap' = [snap EXCEPT ![p] = NoCtx]
    /\ err' = [err EXCEPT ![p] = NoErr]
    /\ taken' = [taken EXCEPT ![p] = NoTaken]
    /\ IF p = JanitorProc
       THEN /\ pc' = [pc EXCEPT ![p] = "idle"]
            /\ ev' = [ev EXCEPT ![p] = NoEvent]
            /\ sid' = [sid EXCEPT ![p] = NoSession]
            /\ sweep' = [sweep EXCEPT !.handled[sid[p]] =
                             IF err[p] # NoErr THEN "timeout-aborted" ELSE "timeout"]
       ELSE /\ pc' = [pc EXCEPT ![p] = "emit"]
            /\ UNCHANGED <<ev, sid, sweep>>
    /\ UNCHANGED <<cvars, boot, hook, flow, store, emitted, now>>

\* await converseApiEvents.emitAsync(`done.${event.target}`, event)
Emit(p) ==
    /\ pc[p] = "emit"
    /\ emitted' = [emitted EXCEPT ![p] = @ + 1]
    /\ pc' = [pc EXCEPT ![p] = "done"]
    /\ ev' = [ev EXCEPT ![p] = NoEvent]
    /\ sid' = [sid EXCEPT ![p] = NoSession]
    /\ reported' = [reported EXCEPT ![p] = NoErr]
    /\ hook' = [hook EXCEPT ![p] = NoHook]
    /\ UNCHANGED <<cvars, boot, flow, store, lock, work, snap, err, taken, now, sweep>>

(***************************************************************************)
(* DialogJanitor (section 4.5).                                            *)
(***************************************************************************)
Stale(ctx, t) == Live(ctx) /\ t - ctx.last > TimeoutT

\* Does the flow define timeout handling for the node the session waits at?
HasTimeoutHandling(n) ==
    \E i \in DOMAIN createTransition(flow.nodes[n], flow) :
        createTransition(flow.nodes[n], flow)[i].fn = "timeout"

\* A sweep starts: scan the sessions suspended past the timeout.
StartSweep ==
    /\ boot.janitor
    /\ ~sweep.active
    /\ pc[JanitorProc] = "idle"
    /\ \E t \in ClockReadings :
          LET stale == {s \in Sessions : Stale(store[s], t)}
          IN  /\ stale # {}
              /\ now' = t
              /\ sweep' = [active |-> TRUE, todo |-> stale, initial |-> stale,
                           lastAt |-> [s \in Sessions |->
                                          IF s \in stale THEN store[s].last ELSE 0],
                           handled |-> [s \in Sessions |-> "none"]]
    /\ UNCHANGED <<cvars, boot, hook, flow, store, lock, pc, ev, sid, work, snap, err, taken,
                   reported, emitted>>

\* The sweep feeds a timeout event for the session through processEvent.  It
\* acts only on a session that is suspended: the session's processing right
\* is free, and the feed takes it in the same step (section 5: the janitor
\* never preempts an active turn), so the timeout turn starts from the
\* suspended context the janitor looked at.
FeedTimeout(s) ==
    /\ sweep.active /\ s \in sweep.todo
    /\ pc[JanitorProc] = "idle"
    /\ Live(store[s]) /\ HasTimeoutHandling(store[s].node)
    /\ MayAcquire(JanitorProc, s)
    /\ LET w == Resume(store[s])
       IN  /\ lock' = [lock EXCEPT ![s] = JanitorProc]
           /\ snap' = [snap EXCEPT ![JanitorProc] = store[s]]
           /\ work' = [work EXCEPT ![JanitorProc] = w]
           /\ pc' = [pc EXCEPT ![JanitorProc] =
                        IF Suspended(w) THEN "persist" ELSE "run"]
    /\ ev' = [ev EXCEPT ![JanitorProc] = TimeoutEvent(UserOf(s))]
    /\ sid' = [sid EXCEPT ![JanitorProc] = s]
    /\ sweep' = [sweep EXCEPT !.todo = @ \ {s}, !.handled[s] = "timeout-fed"]
    /\ reported' = [reported EXCEPT ![JanitorProc] = NoErr]
    /\ err' = [err EXCEPT ![JanitorProc] = NoErr]
    /\ taken' = [taken EXCEPT ![JanitorProc] = NoTaken]
    /\ UNCHANGED <<cvars, boot, hook, flow, store, emitted, now>>

\* A variant that leaves the session in the store.
EvictedKept(s) == store[s]

\* What the store holds for an evicted session.
Evicted(s) == TerminatedCtx

\* The sweep terminates and evicts a session without timeout handling.
Evict(s) ==
    /\ sweep.active /\ s \in sweep.todo
    /\ pc[JanitorProc] = "idle"
    /\ ~(Live(store[s]) /\ HasTimeoutHandling(store[s].node))
    /\ lock[s] = NoProc
    /\ store' = [store EXCEPT ![s] = Evicted(s)]
    /\ sweep' = [sweep EXCEPT !.todo = @ \ {s}, !.handled[s] = "evicted"]
    /\ UNCHANGED <<cvars, boot, hook, flow, lock, pc, ev, sid, work, snap, err, taken, reported,
                   emitted, now>>

EndSweep ==
    /\ sweep.active /\ sweep.todo = {}
    /\ pc[JanitorProc] = "idle"
    /\ sweep' = IdleSweep
    /\ reported' = [reported EXCEPT ![JanitorProc] = NoErr]
    /\ UNCHANGED <<cvars, boot, hook, flow, store, lock, pc, ev, sid, work, snap, err, taken,
                   emitted, now>>

Next ==
    \/ \E p \in EventProcs : Arrive(p) \/ AfterIncomingHook(p) \/ Emit(p)
    \/ \E p \in Procs : Acquire(p) \/ Run(p) \/ Persist(p) \/ Release(p)
    \/ StartSweep
    \/ \E s \in Sessions : FeedTimeout(s) \/ Evict(s)
    \/ EndSweep

Spec == Init /\ [][Next]_vars

(***************************************************************************)
(* The start of the server (Botpress.initialize), with events coming in    *)
(* as soon as the HTTP server listens.                                     *)
(***************************************************************************)
\* initializeServices up to the registration of the two event callbacks.
RegisterCallbacks ==
    /\ boot.step = "services"
    /\ boot' = [boot EXCEPT !.step = "callbacks", !.callbacks = TRUE]
    /\ UNCHANGED <<cvars, hook, flow, store, lock, pc, ev, sid, work, snap, err,
                   taken, reported, emitted, now, sweep>>

\* this.dialogEngine.onProcessingError = err => { ... }
SetProcessingErrorCallback ==
    /\ boot.step = "callbacks"
    /\ boot' = [boot EXCEPT !.step = "errorCallback", !.onProcessingError = TRUE]
    /\ UNCHANGED <<cvars, hook, flow, store, lock, pc, ev, sid, work, snap, err,
                   taken, reported, emitted, now, sweep>>

\* await this.logJanitor.start(); await this.dialogJanitor.start(); and the
\* rest of initializeServices.
StartJanitors ==
    /\ boot.step = "errorCallback"
    /\ boot' = [boot EXCEPT !.step = "servicesReady", !.janitor = TRUE]
    /\ UNCHANGED <<cvars, hook, flow, store, lock, pc, ev, sid, work, snap, err,
                   taken, reported, emitted, now, sweep>>

\* loadModules, deployAssets, startRealtime, startServer: the HTTP server
\* listens.
StartServer ==
    /\ boot.step = "servicesReady"
    /\ boot' = [boot EXCEPT !.step = "server", !.server = TRUE]
    /\ UNCHANGED <<cvars, hook, flow, store, lock, pc, ev, sid, work, snap, err,
                   taken, reported, emitted, now, sweep>>

\* await this.discoverBots()
DiscoverBots ==
    /\ boot.step = "server"
    /\ boot' = [boot EXCEPT !.step = "bots", !.bots = TRUE]
    /\ UNCHANGED <<cvars, hook, flow, store, lock, pc, ev, sid, work, snap, err,
                   taken, reported, emitted, now, sweep>>

\* this.api = await createForGlobalHooks()
CreateApi ==
    /\ boot.step = "bots"
    /\ boot' = [boot EXCEPT !.step = "api", !.api = TRUE]
    /\ UNCHANGED <<cvars, hook, flow, store, lock, pc, ev, sid, work, snap, err,
                   taken, reported, emitted, now, sweep>>

\* await this.hookService.executeHook(new Hooks.AfterServerStart(this.api))
AfterServerStart ==
    /\ boot.step = "api"
    /\ boot' = [boot EXCEPT !.step = "started"]
    /\ UNCHANGED <<cvars, hook, flow, store, lock, pc, ev, sid, work, snap, err,
                   taken, reported, emitted, now, sweep>>

InitBoot ==
    /\ cnode = Terminal
    /\ cflow = [catchAll |-> NoCatchAll]
    /\ cres = NoRes
    /\ flow \in Flows
    /\ boot = Booting
    /\ RuntimeIdle

NextBoot ==
    \/ RegisterCallbacks \/ SetProcessingErrorCallback \/ StartJanitors
    \/ StartServer \/ DiscoverBots \/ CreateApi \/ AfterServerStart
    \/ \E p \in EventProcs :
          \/ BeforeIncoming(p) \/ AfterIncoming(p)
          \/ AfterIncomingHook(p) \/ HookRejects(p) \/ ProcessEventRejects(p)
          \/ Emit(p)
    \/ \E p \in Procs : Acquire(p) \/ Run(p) \/ Persist(p) \/ Release(p)
    \/ StartSweep
    \/ \E s \in Sessions : FeedTimeout(s) \/ Evict(s)
    \/ EndSweep

SpecBoot == InitBoot /\ [][NextBoot]_vars

(***************************************************************************)
(* Properties of InstructionFactory (checked under SpecCompile).           *)
(***************************************************************************)
\* The documents' own lists, read off the documents without the factory.
FlowReceiveOf(f) ==
    IF f.catchAll.tag = "object" /\ f.catchAll.onReceive.tag = "list"
    THEN f.catchAll.onReceive.val ELSE <<>>
FlowNextOf(f) ==
    IF f.catchAll.tag = "object" /\ f.catchAll.next.tag = "list"
    THEN f.catchAll.next.val ELSE <<>>
NodeNextOf(node) == IF node.next.tag = "list" THEN node.next.val ELSE <<>>

\* C3: for a node whose onReceive is absent (undefined or null), whatever the flow's catch-all
\* holds, createOnReceive returns undefined and never a list.
C3_AbsentOnReceiveIsUndefined ==
    (cres.fn = "createOnReceive" /\ cnode.onReceive.tag # "list")
        => (cres.out.tag = "undefined" /\ cres.out # EmptyList
            /\ cres.out # List(Map(OnReceiveInstruction, FlowReceiveOf(cflow))))

C3_Witness ==
    /\ cres.fn = "createOnReceive"
    /\ cnode.onReceive.tag = "undefined"
    /\ Len(FlowReceiveOf(cflow)) = 2
    /\ cres.out = Undef

\* C4: for a node whose onReceive is present (the empty list included),
\* createOnReceive returns a list: the catch-all onReceive actions in their
\* order, then the node's, each as an on-receive instruction.
C4_PresentOnReceiveIsCatchAllThenNode ==
    (cres.fn = "createOnReceive" /\ cnode.onReceive.tag = "list")
        => LET fr == FlowReceiveOf(cflow)
               nr == cnode.onReceive.val
           IN  /\ cres.out.tag = "list"
               /\ Len(cres.out.val) = Len(fr) + Len(nr)
               /\ \A i \in 1..Len(fr) :
                    cres.out.val[i] = [type |-> "on-receive", fn |-> fr[i], node |-> NoNode]
               /\ \A i \in 1..Len(nr) :
                    cres.out.val[Len(fr) + i] =
                        [type |-> "on-receive", fn |-> nr[i], node |-> NoNode]
               /\ (Len(fr) = 0 /\ Len(nr) = 0) => cres.out = EmptyList

C4_Witness ==
    /\ cres.fn = "createOnReceive"
    /\ cnode.onReceive = List(<<"badNo", "inc">>)
    /\ FlowReceiveOf(cflow) = <<"inc", "badNo">>
    /\ Len(cres.out.val) = 4

\* C5: for a node whose next is not empty, createTransition returns the
\* catch-all next entries in their order, then the node's, each as a transition
\* instruction carrying that entry's condition and destination.
C5_TransitionsAreCatchAllThenNode ==
    (cres.fn = "createTransition" /\ Len(NodeNextOf(cnode)) > 0)
        => LET fx == FlowNextOf(cflow)
               nx == NodeNextOf(cnode)
           IN  /\ Len(cres.out) = Len(fx) + Len(nx)
               /\ \A i \in 1..Len(fx) :
                    cres.out[i] = [type |-> "transition", fn |-> fx[i].condition,
                                   node |-> fx[i].node]
               /\ \A i \in 1..Len(nx) :
                    cres.out[Len(fx) + i] =
                        [type |-> "transition", fn |-> nx[i].condition,
                         node |-> nx[i].node]

C5_Witness ==
    /\ cres.fn = "createTransition"
    /\ NodeNextOf(cnode) = <<Tr("yes", "A"), Tr("true", "B")>>
    /\ FlowNextOf(cflow) = <<Tr("true", "A"), Tr("yes", "B")>>
    /\ Len(cres.out) = 4

\* C6: for a node whose next is absent (or null) or empty, createTransition
\* returns the empty sequence whatever the flow's catchAll.next holds.
C6_NoNextCompilesNothing ==
    (cres.fn = "createTransition" /\ Len(NodeNextOf(cnode)) = 0)
        => cres.out = <<>>

C6_Witness ==
    /\ cres.fn = "createTransition"
    /\ cnode.next = EmptyList
    /\ Len(FlowNextOf(cflow)) = 2
    /\ cres.out = <<>>

\* C13: createOnEnter returns one on-enter instruction per entry of
\* node.onEnter, in source order and carrying that entry; the empty sequence
\* when onEnter is absent or null; the flow's catch-all contributes nothing.
C13_OnEnterIsNodeOnEnter ==
    cres.fn = "createOnEnter"
        => LET ne == IF cnode.onEnter.tag = "list" THEN cnode.onEnter.val ELSE <<>>
           IN  /\ Len(cres.out) = Len(ne)
               /\ \A i \in 1..Len(ne) :
                     cres.out[i] = [type |-> "on-enter", fn |-> ne[i], node |-> NoNode]

\* two entries compiled in their order beside a catch-all that holds handlers
C13_Witness ==
    /\ cres.fn = "createOnEnter"
    /\ cnode.onEnter = List(<<"badNo", "inc">>)
    /\ Len(FlowReceiveOf(cflow)) > 0 /\ Len(FlowNextOf(cflow)) > 0
    /\ Len(cres.out) = 2 /\ cres.out[1].fn = "badNo"

(***************************************************************************)
(* Properties of the runtime (checked under Spec).                         *)
(***************************************************************************)
Listens(n) == flow.nodes[n].onReceive.tag = "list"
NoNext(n) == Len(NodeNextOf(flow.nodes[n])) = 0
InTurn(p) == pc[p] \in {"run", "persist", "release"}
\* The turn came to its current node in this turn (it did not resume there).
Entered(p) == work[p].hops > 0 \/ ~Live(snap[p])

\* C1: whenever a turn takes a transition, its destination is that of the
\* first entry, in the order catch-all next then node next, whose condition is
\* truthy for the turn's event; every earlier entry evaluated falsy.
C1_FirstTruthyTransitionWins ==
    \A p \in Procs :
        taken[p].any =>
            LET all == FlowNextOf(flow) \o NodeNextOf(flow.nodes[taken[p].from])
            IN  \E i \in 1..Len(all) :
                    /\ all[i].node = taken[p].to
                    /\ EvalCondition(all[i].condition, ev[p]) = "true"
                    /\ \A j \in 1..(i - 1) :
                          EvalCondition(all[j].condition, ev[p]) = "false"

\* conditions [false, false, true, true] with destinations [A, B, C, D] lead to C
C1_Witness ==
    \E p \in Procs :
        /\ taken[p] = [from |-> "start", to |-> "C", any |-> TRUE]
        /\ Len(NodeNextOf(flow.nodes["start"])) = 4
        /\ \A i \in 1..4 :
              EvalCondition(NodeNextOf(flow.nodes["start"])[i].condition, ev[p])
                  = IF i < 3 THEN "false" ELSE "true"

\* C2: a node whose onReceive is present (the empty list included) suspends
\* for exactly one message before transitioning: (a) the turn that entered it
\* evaluates none of its transitions, (b) that turn, unless it aborts, ends
\* suspended at the node, (c) the stored context of a suspended session is at a
\* listening node and holds the wait alone, and (d) the turn of the next
\* message does not wait at the node again.
C2_ListeningNodeWaitsOneMessage ==
    /\ \A p \in Procs :
          (InTurn(p) /\ work[p].state = "transitioning" /\ Listens(work[p].node))
              => (~Entered(p) /\ snap[p].node = work[p].node)
    /\ \A p \in Procs :
          (taken[p].any /\ Listens(taken[p].from))
              => (Live(snap[p]) /\ snap[p].node = taken[p].from)
    /\ \A p \in Procs :
          (pc[p] \in {"persist", "release"} /\ err[p] = NoErr /\ Entered(p)
              /\ Listens(work[p].node))
              => work[p].state = "awaiting-input"
    /\ \A s \in Sessions :
          Live(store[s]) => (Listens(store[s].node) /\ store[s].queue = <<createWait>>)
    /\ \A p \in Procs :
          (pc[p] \in {"persist", "release"} /\ err[p] = NoErr /\ ~Entered(p))
              => work[p].state = "terminated"

\* the turn of the next message evaluates the transitions of a node whose
\* onReceive is the empty list
C2_Witness ==
    \E p \in Procs :
        /\ pc[p] = "run" /\ work[p].state = "transitioning"
        /\ flow.nodes[work[p].node].onReceive = EmptyList
        /\ Live(snap[p]) /\ snap[p].node = work[p].node /\ work[p].hops = 0

\* C7: turns on one session id are serialized: no two processes are in a
\* turn on the same session, the process in a turn holds the session, and until
\* the turn saves the store still holds the context the turn started from.
C7_TurnsSerializedPerSession ==
    /\ \A p, q \in Procs :
          (p # q /\ InTurn(p) /\ InTurn(q)) => sid[p] # sid[q]
    /\ \A p \in Procs : InTurn(p) => lock[sid[p]] = p
    /\ \A p \in Procs : pc[p] \in {"run", "persist"} => store[sid[p]] = snap[p]

\* a second event of the session waits while the first one's turn runs
C7_Witness ==
    \E p, q \in EventProcs :
        /\ p # q /\ sid[p] = sid[q]
        /\ pc[p] = "run" /\ pc[q] = "acquire"

\* C8: after a turn that aborted, whatever the reason, the store holds the
\* pre-turn snapshot.
C8_AbortedTurnLeavesSnapshot ==
    \A p \in Procs :
        (pc[p] = "release" /\ err[p] # NoErr) => store[sid[p]] = snap[p]

\* a turn that had switched node and changed variables aborts
C8_Witness ==
    \E p \in Procs :
        /\ pc[p] = "release" /\ err[p].reason = "runaway"
        /\ Live(snap[p])
        /\ work[p].node # snap[p].node /\ work[p].vars # snap[p].vars
        /\ store[sid[p]] = snap[p]

SweepComplete == sweep.active /\ sweep.todo = {} /\ pc[JanitorProc] = "idle"
SameStaleContext(s) == Live(store[s]) /\ store[s].last = sweep.lastAt[s]

TruthyIn(l, event) == {i \in 1..Len(l) : EvalCondition(l[i].condition, event) = "true"}
FirstOf(S) == CHOOSE i \in S : \A j \in S : i <= j

\* C12 as claimed: in a turn where a node-local transition condition and a
\* catch-all transition condition are both truthy at the current node, the
\* session moves to the node-local transition's destination.
C12_NodeLocalOverridesCatchAll ==
    \A p \in Procs :
        taken[p].any =>
            LET fx == FlowNextOf(flow)
                nx == NodeNextOf(flow.nodes[taken[p].from])
            IN  (TruthyIn(fx, ev[p]) # {} /\ TruthyIn(nx, ev[p]) # {})
                    => taken[p].to = nx[FirstOf(TruthyIn(nx, ev[p]))].node

\* C12 as amended: the catch-all transitions are tried first, so when both a
\* catch-all and a node-local condition are truthy the session moves to the
\* destination of the first truthy catch-all transition; a node-local
\* transition is taken only when no catch-all condition is truthy.
C12_CatchAllTransitionWinsOverNodeLocal ==
    \A p \in Procs :
        taken[p].any =>
            LET fx == FlowNextOf(flow)
                nx == NodeNextOf(flow.nodes[taken[p].from])
            IN  IF TruthyIn(fx, ev[p]) # {}
                THEN taken[p].to = fx[FirstOf(TruthyIn(fx, ev[p]))].node
                ELSE /\ TruthyIn(nx, ev[p]) # {}
                     /\ taken[p].to = nx[FirstOf(TruthyIn(nx, ev[p]))].node

\* both a catch-all and a node-local condition are truthy, with different
\* destinations, and the turn moved to the catch-all one
C12_Witness ==
    \E p \in Procs :
        LET fx == FlowNextOf(flow)
            nx == NodeNextOf(flow.nodes[taken[p].from])
        IN  /\ taken[p].any
            /\ TruthyIn(fx, ev[p]) # {} /\ TruthyIn(nx, ev[p]) # {}
            /\ fx[FirstOf(TruthyIn(fx, ev[p]))].node # nx[FirstOf(TruthyIn(nx, ev[p]))].node
            /\ taken[p].to = fx[FirstOf(TruthyIn(fx, ev[p]))].node

\* C14: a node whose onReceive is absent is never waited at: no turn suspends
\* there, no stored context rests there, a turn that ends there without error
\* has terminated, and its transitions are evaluated in the turn that entered
\* it, against that turn's event (start without onReceive, next [yes -> A,
\* true -> B]: 'yes' lands on A and 'no' on B).
C14_NonListeningNodeTransitionsInSameTurn ==
    /\ \A p \in Procs :
          (InTurn(p) /\ work[p].state = "awaiting-input") => Listens(work[p].node)
    /\ \A s \in Sessions : Live(store[s]) => Listens(store[s].node)
    /\ \A p \in Procs :
          (pc[p] \in {"persist", "release"} /\ err[p] = NoErr
              /\ ~Listens(work[p].node))
              => work[p].state = "terminated"
    /\ \A p \in Procs :
          (taken[p].any /\ ~Listens(taken[p].from))
              => /\ ~(Live(snap[p]) /\ snap[p].node = taken[p].from)
                 /\ LET all == FlowNextOf(flow) \o NodeNextOf(flow.nodes[taken[p].from])
                    IN  /\ TruthyIn(all, ev[p]) # {}
                        /\ taken[p].to = all[FirstOf(TruthyIn(all, ev[p]))].node
    /\ \A p \in Procs :
          (flow = FlowYes /\ taken[p].any /\ taken[p].from = "start")
              => taken[p].to = IF ev[p].input = "yes" THEN "A" ELSE "B"

\* the first event of a session, with input 'no', went through the start node
\* that does not listen and landed on B in the same turn
C14_Witness ==
    \E p \in EventProcs :
        /\ flow = FlowYes /\ pc[p] = "persist" /\ err[p] = NoErr
        /\ ev[p].input = "no" /\ ~Live(snap[p])
        /\ taken[p] = [from |-> "start", to |-> "B", any |-> TRUE]
        /\ work[p].node = "B" /\ work[p].state = "awaiting-input"

\* The transition entries of a node in the order they are tried, read off the
\* documents: none for a node without next of its own.
EntriesOf(n) ==
    IF NoNext(n) THEN <<>> ELSE FlowNextOf(flow) \o NodeNextOf(flow.nodes[n])
AllFalsy(n, event) ==
    \A i \in 1..Len(EntriesOf(n)) :
        EvalCondition(EntriesOf(n)[i].condition, event) = "false"

Rank(w) ==
    CASE w.state = "entering" -> 3
      [] w.state = "receiving" -> 2
      [] w.state = "transitioning" -> 1
      [] OTHER -> 0
Decreases(w, v) ==
    \/ v.hops > w.hops
    \/ v.hops = w.hops /\ Rank(v) < Rank(w)
    \/ v.hops = w.hops /\ Rank(v) = Rank(w) /\ Len(v.queue) < Len(w.queue)

\* C16: every turn ends.  A turn never makes more than MaxHops hops; every
\* instruction it runs either aborts it or brings it strictly nearer to its end
\* (more hops made, else a later phase of the visit, else a shorter list); a
\* turn that has stopped running is suspended, terminated or aborted; and the
\* runaway error is raised only at the ceiling, on a truthy transition, with
\* its own reason, while an evaluation error is one whose instruction failed.
C16_EveryTurnEnds ==
    /\ [](\A p \in Procs :
            /\ work[p].hops <= MaxHops
            /\ pc[p] \in {"persist", "release"}
                  => (Suspended(work[p]) \/ err[p] # NoErr)
            /\ pc[p] = "run" => (err[p] = NoErr /\ work[p].queue # <<>>)
            /\ err[p].reason = "runaway"
                  => /\ work[p].hops = MaxHops
                     /\ err[p].instruction.type = "transition"
                     /\ err[p].instruction.node # NoNode
                     /\ EvalCondition(err[p].instruction.fn, ev[p]) = "true"
            /\ err[p].reason = "evaluation"
                  => IF err[p].instruction.type = "transition"
                     THEN EvalCondition(err[p].instruction.fn, ev[p]) = "throw"
                     ELSE ActionThrows(err[p].instruction.fn, ev[p]))
    /\ [][\A p \in Procs :
            (pc[p] = "run" /\ <<work[p], err[p], pc[p]>> # <<work'[p], err'[p], pc'[p]>>)
                => \/ err'[p] # NoErr /\ pc'[p] = "persist"
                   \/ /\ Decreases(work[p], work'[p])
                      /\ pc'[p] = IF Suspended(work'[p]) THEN "persist" ELSE "run"]_vars

\* a node without onReceive whose always-true transition leads back to itself:
\* the turn made MaxHops hops and aborted with the runaway error
C16_Witness ==
    \E p \in Procs :
        /\ pc[p] = "persist" /\ err[p].reason = "runaway"
        /\ work[p].hops = MaxHops
        /\ taken[p].any /\ taken[p].from = taken[p].to
        /\ ~Listens(work[p].node)
        /\ EvalCondition(err[p].instruction.fn, ev[p]) = "true"
        /\ err[p].instruction.node = work[p].node

\* The instruction lists of a node visit, read off the documents.
IsSuffix(q, l) ==
    Len(q) <= Len(l) /\ \A i \in 1..Len(q) : q[i] = l[Len(l) - Len(q) + i]
NodeEnterOf(n) ==
    IF flow.nodes[n].onEnter.tag = "list" THEN flow.nodes[n].onEnter.val ELSE <<>>
NodeReceiveOf(n) ==
    IF Listens(n) THEN flow.nodes[n].onReceive.val ELSE <<>>
EnterList(n) ==
    [i \in 1..Len(NodeEnterOf(n)) |->
        [type |-> "on-enter", fn |-> NodeEnterOf(n)[i], node |-> NoNode]]
ReceiveList(n) ==
    LET all == FlowReceiveOf(flow) \o NodeReceiveOf(n)
    IN  [i \in 1..Len(all) |-> [type |-> "on-receive", fn |-> all[i], node |-> NoNode]]
TransitionList(n) ==
    [i \in 1..Len(EntriesOf(n)) |->
        [type |-> "transition", fn |-> EntriesOf(n)[i].condition,
         node |-> EntriesOf(n)[i].node]]
PhaseList(w) ==
    CASE w.state = "entering" -> EnterList(w.node)
      [] w.state = "receiving" -> ReceiveList(w.node)
      [] w.state = "transitioning" -> TransitionList(w.node)
      [] w.state = "awaiting-input" -> <<createWait>>
      [] OTHER -> <<>>

\* C17: within a node visit the instructions run in the fixed order.  What a
\* running turn has left to execute is always the rest of the list of its
\* phase (the on-enter list, the on-receive list with the catch-all entries
\* first, the transition list), never empty while it runs; a suspended context
\* holds the wait alone, at a node that listens; every step runs the head of
\* the list and leaves its tail, or, the list done, moves to the next phase:
\* from on-enter to the wait (the node listens) or to the transitions, from
\* on-receive to the transitions; and an on-enter or on-receive instruction
\* never changes the current node.
C17_NodeVisitRunsInFixedOrder ==
    /\ [](\A p \in Procs :
            pc[p] = "run"
                => /\ work[p].state \in {"entering", "receiving", "transitioning"}
                   /\ work[p].queue # <<>>
                   /\ IsSuffix(work[p].queue, PhaseList(work[p])))
    /\ [](\A s \in Sessions :
            Live(store[s]) => store[s].queue = PhaseList(store[s]))
    /\ [][\A p \in Procs :
            (pc[p] = "run" /\ work'[p] # work[p] /\ err'[p] = NoErr
                /\ Head(work[p].queue).type \in {"on-enter", "on-receive"})
                => /\ work'[p].node = work[p].node
                   /\ work'[p].hops = work[p].hops
                   /\ IF Tail(work[p].queue) # <<>>
                      THEN /\ work'[p].state = work[p].state
                           /\ work'[p].queue = Tail(work[p].queue)
                      ELSE IF work[p].state = "entering" /\ Listens(work[p].node)
                      THEN work'[p].state = "awaiting-input"
                      ELSE IF TransitionList(work[p].node) # <<>>
                      THEN /\ work'[p].state = "transitioning"
                           /\ work'[p].queue = TransitionList(work[p].node)
                      ELSE work'[p].state = "terminated"]_vars
    /\ [][\A p \in Procs :
            (pc[p] = "run" /\ work'[p] # work[p] /\ err'[p] = NoErr
                /\ work'[p].state # "terminated" /\ work'[p].hops = work[p].hops
                /\ Head(work[p].queue).type = "transition")
                => /\ work'[p].node = work[p].node
                   /\ work'[p].state = "transitioning"
                   /\ work'[p].queue = Tail(work[p].queue)]_vars

\* the catch-all on-receive instruction has run and the node's own, a
\* different one, is the next to run
C17_Witness ==
    \E p \in Procs :
        /\ pc[p] = "run" /\ work[p].state = "receiving"
        /\ Len(FlowReceiveOf(flow)) = 1 /\ Len(NodeReceiveOf(work[p].node)) = 1
        /\ FlowReceiveOf(flow)[1] # NodeReceiveOf(work[p].node)[1]
        /\ Len(work[p].queue) = 1
        /\ Head(work[p].queue).fn = NodeReceiveOf(work[p].node)[1]
        /\ work[p].vars # snap[p].vars

\* The janitor acts on the session in this step: it feeds the timeout event
\* or evicts.
JanitorActsOn(s) ==
    /\ sweep'.handled[s] # sweep.handled[s]
    /\ sweep'.handled[s] \in {"timeout-fed", "evicted"}
TurnActiveOn(s) == \E p \in Procs : InTurn(p) /\ sid[p] = s

\* C18: the janitor acts only on suspended sessions.  When it feeds a timeout
\* event into a session or evicts one, no turn is active on that session and
\* the session is suspended in awaiting-input (a session that ended since the
\* scan is only struck off the sweep's list, the store untouched); the
\* janitor's timeout turn starts from the suspended context and runs alone on
\* its session.  A sweep starts only when none is running.  While a sweep
\* runs, even in the middle of the janitor's timeout turn, an incoming event
\* whose own session has no active turn can start its turn.
C18_JanitorActsOnlyOnSuspendedSessions ==
    /\ [][\A s \in Sessions :
            JanitorActsOn(s)
                => /\ ~TurnActiveOn(s) /\ lock[s] = NoProc
                   /\ Live(store[s]) \/ store'[s] = store[s]
                   /\ sweep'.handled[s] = "timeout-fed" => Live(store[s])]_vars
    /\ [](InTurn(JanitorProc)
            => /\ sweep.active /\ Live(snap[JanitorProc])
               /\ \A p \in EventProcs : InTurn(p) => sid[p] # sid[JanitorProc])
    /\ [][(sweep'.active /\ (~sweep.active \/ sweep'.initial # sweep.initial))
            => (~sweep.active /\ pc[JanitorProc] = "idle")]_vars
    /\ [](\A p \in EventProcs :
            (sweep.active /\ pc[p] = "acquire" /\ ~TurnActiveOn(sid[p]))
                => ENABLED Acquire(p))

\* during a sweep the janitor's timeout turn, begun at a suspended session,
\* and the turn of another session's event run side by side
C18_Witness ==
    \E p \in EventProcs :
        /\ sweep.active /\ pc[JanitorProc] = "run" /\ pc[p] = "run"
        /\ sid[p] # sid[JanitorProc]
        /\ sweep.handled[sid[JanitorProc]] = "timeout-fed"
        /\ Live(snap[JanitorProc]) /\ lock[sid[JanitorProc]] = JanitorProc

(***************************************************************************)
(* Properties of the start of the server (checked under SpecBoot).         *)
(***************************************************************************)
\* C19: every run of the before-incoming and after-incoming callbacks builds
\* its hook with this.api already assigned by createForGlobalHooks: no
\* incoming event is handled with an undefined api.
C19_HooksSeeAssignedApi ==
    \A p \in EventProcs :
        /\ hook[p].before # "undefined"
        /\ hook[p].after # "undefined"

\* The order of the steps of the two callbacks for one event.
CallbackOrder ==
    {<<"idle", "middleware">>, <<"middleware", "hook">>,
     <<"hook", "acquire">>, <<"hook", "failed">>, <<"acquire", "failed">>,
     <<"acquire", "run">>, <<"acquire", "persist">>, <<"run", "persist">>,
     <<"persist", "release">>, <<"release", "emit">>, <<"emit", "done">>}
InProcessEvent(p) == pc[p] \in {"acquire", "run", "persist", "release"}

\* C20: for every incoming event the after-incoming callback runs its steps
\* in order: the hook, then the session id, then processEvent, then the
\* emission of done.  The session id in use is the one derived from the event
\* after the hook resolved; done is emitted at most once for the event, in the
\* step that follows the return of processEvent for that event (its turn
\* released, nothing of it in flight), and never for an event whose hook or
\* whose processEvent call rejected: that callback stops there for good.
C20_DoneOnceAfterProcessEvent ==
    /\ [](\A p \in EventProcs :
            /\ emitted[p] <= 1
            /\ emitted[p] = 1 <=> pc[p] = "done"
            /\ hook[p].result = "rejected" => pc[p] = "failed" /\ sid[p] = NoSession
            /\ pc[p] = "failed"
                  => /\ emitted[p] = 0 /\ work[p] = IdleWork
                     /\ hook[p].result = "rejected" \/ sid[p] = createIdFromEvent(ev[p])
            /\ (InProcessEvent(p) \/ pc[p] = "emit")
                  => /\ hook[p].result = "resolved"
                     /\ sid[p] = createIdFromEvent(ev[p])
            /\ pc[p] \in {"idle", "middleware", "hook"}
                  => sid[p] = NoSession /\ work[p] = IdleWork
            /\ pc[p] = "emit" => work[p] = IdleWork /\ lock[sid[p]] # p)
    /\ [][\A p \in EventProcs :
            pc'[p] # pc[p] => <<pc[p], pc'[p]>> \in CallbackOrder]_vars
    /\ [][\A p \in EventProcs :
            emitted'[p] # emitted[p]
                => /\ pc[p] = "emit" /\ hook[p].result = "resolved"
                   /\ emitted[p] = 0 /\ emitted'[p] = 1]_vars
    /\ [][\A p \in EventProcs :
            pc[p] = "failed"
                => /\ pc'[p] = "failed" /\ emitted'[p] = 0
                   /\ hook'[p] = hook[p] /\ sid'[p] = sid[p]]_vars

\* done has been emitted for one event and not for another, whose
\* processEvent call rejected after its hook had resolved
C20_Witness ==
    \E p, q \in EventProcs :
        /\ pc[p] = "done" /\ emitted[p] = 1
        /\ pc[q] = "failed" /\ emitted[q] = 0
        /\ hook[q].result = "resolved" /\ sid[q] = createIdFromEvent(ev[q])

\* What every ProcessingError carries besides the instruction.
ErrorKinds == {"evaluation", "no-match", "runaway", "persistence"}
NamesFlowAndNode(e) ==
    /\ e.reason \in ErrorKinds
    /\ e.flowName = flow.name
    /\ e.node \in DOMAIN flow.nodes
IsInstruction(i) == i.type \in {"on-enter", "on-receive", "transition"}
\* A turn-aborting failure is pending or the callback has just been run with it.
FailureAt(p) == err[p] # NoErr \/ reported[p] # NoErr
\* Nothing that can fail runs before the error callback is set.
CallbackSetFirst ==
    /\ (boot.janitor \/ boot.server) => boot.onProcessingError
    /\ \A p \in Procs : (pc[p] # "idle" \/ FailureAt(p)) => boot.onProcessingError
    /\ sweep.active => boot.onProcessingError
\* The callback has run with the error exactly when the turn has just ended.
ReportedAtTurnEnd ==
    \A p \in Procs :
        /\ err[p] # NoErr => pc[p] \in {"persist", "release"} /\ reported[p] = NoErr
        /\ reported[p] # NoErr => pc[p] = IF p = JanitorProc THEN "idle" ELSE "emit"

====
